---- MODULE Spec2Model ----
(***************************************************************************)
(* A model of pypots/modules/self_attention.py: scaled dot-product         *)
(* attention, multi-head attention, the position-wise feed-forward block,  *)
(* the encoder/decoder layers and stacks, and the positional encoding.     *)
(*                                                                         *)
(* Tensors live in a heap (a sequence of tensor objects).  A tensor object *)
(* has a shape, strides, the id of the tensor owning its storage (base),   *)
(* a count of the in-place writes made to the storage it owns (ver) and    *)
(* the operation that produced it (op, args).                              *)
(*                                                                         *)
(* The bodies of __init__ and forward are written statement by statement   *)
(* (InitBody, ForwardBody) and executed by a small interpreter (Exec) on a *)
(* machine m = [heap, err, reg, ...]: reg holds the local variables of the *)
(* running function, and once err is set every later statement is skipped, *)
(* which is how a Python exception propagates.                             *)
(*                                                                         *)
(* Spec     imports the module, builds one module object and calls its     *)
(*          forward once, on shapes and storage.                           *)
(* SpecSDPA runs ScaledDotProductAttention.forward on numbers.             *)
(* SpecPE   builds a PositionalEncoding and calls it repeatedly.           *)
(***************************************************************************)
EXTENDS Integers, Sequences, FiniteSets, TLC

VARIABLES
    annotations,  \* how the interpreter treats annotations: "eager" | "deferred"
    classes,      \* the classes the loaded module offers
    load,         \* "unloaded", then "ok" or the exception the import raised
    heap,         \* the tensors alive: parameters, then the last call's tensors
    module,       \* the object under test, or None
    call,         \* the last construction/forward call and its outcome, or None
    sdpa,         \* a ScaledDotProductAttention and its last call, on numbers (SpecSDPA)
    pe            \* a PositionalEncoding and its calls (SpecPE)

vars == <<annotations, classes, load, heap, module, call, sdpa, pe>>

\* Python's None where a tensor is expected: no tensor has id 0
None == 0
NoModule == [cls |-> "None"]
NoCall == [op |-> "none"]
NoErr == "none"

\* ------------------------------------------------------------------ bounds
MaxLayers == 2
MaxSteps == 2

\* the values the configurations and inputs are drawn from
BatchSizes == {1, 2}
Widths == {1, 2}           \* d_model, n_heads, d_k, d_v
\* the <<n_heads, d_model, d_k, d_v>> drawn: d_model equal to n_heads * d_k
\* and n_heads * d_v, and different from either
Geometries == {<<2, 4, 2, 2>>, <<2, 1, 2, 1>>, <<1, 2, 1, 2>>}
InnerWidths == {3}         \* d_inner
FeatureWidths == {3}       \* n_features
Probabilities == {0, 10}   \* dropout probabilities, in percent
InvalidDims == {-1, 0}

\* ------------------------------------------------------------ shape helpers
RECURSIVE Prod(_)
Prod(s) == IF Len(s) = 0 THEN 1 ELSE s[1] * Prod(Tail(s))

\* row-major strides of a freshly allocated tensor
RECURSIVE ContigStride(_)
ContigStride(s) ==
    IF Len(s) = 0 THEN << >>
    ELSE <<Prod(Tail(s))>> \o ContigStride(Tail(s))

\* torch's is_contiguous: dimensions of size 1 are ignored, an empty tensor is contiguous
IsContiguous(t) ==
    \/ Prod(t.shape) = 0
    \/ \A i \in 1..Len(t.shape) :
          t.shape[i] # 1 => t.stride[i] = Prod(SubSeq(t.shape, i + 1, Len(t.shape)))

Last(s) == s[Len(s)]
Front(s) == SubSeq(s, 1, Len(s) - 1)
Max(a, b) == IF a >= b THEN a ELSE b
Min(a, b) == IF a <= b THEN a ELSE b

\* right-aligned broadcasting of two shapes
PadLeft(s, n) == [i \in 1..n |-> IF i <= n - Len(s) THEN 1 ELSE s[i - (n - Len(s))]]
Broadcastable(s1, s2) ==
    LET n == Max(Len(s1), Len(s2))
        a == PadLeft(s1, n)
        b == PadLeft(s2, n)
    IN \A i \in 1..n : a[i] = b[i] \/ a[i] = 1 \/ b[i] = 1
BroadcastShape(s1, s2) ==
    LET n == Max(Len(s1), Len(s2))
        a == PadLeft(s1, n)
        b == PadLeft(s2, n)
    IN [i \in 1..n |-> IF a[i] = 1 THEN b[i] ELSE a[i]]

\* ------------------------------------------------------------- the machine
\* training is the mode of the module (nn.Module.train/eval) during the call;
\* r is the last result and nret the number of values the last return gave
Machine(h, training) ==
    [heap |-> h, err |-> NoErr, r |-> None, log |-> << >>, training |-> training,
     reg |-> [self |-> None], returned |-> FALSE, nret |-> 0, nobj |-> 0]
Fail(m, e) == IF m.err # NoErr THEN m ELSE [m EXCEPT !.err = e, !.r = None]
Ret(m, v) == IF m.err # NoErr THEN m ELSE [m EXCEPT !.r = v]


\* a new tensor owning its storage; a negative size is torch's RuntimeError
Alloc(m, shape, op, args) ==
    IF m.err # NoErr THEN m
    ELSE IF \E i \in 1..Len(shape) : shape[i] < 0 THEN Fail(m, "RuntimeError")
    ELSE LET id == Len(m.heap) + 1
         IN [m EXCEPT !.heap = Append(@, [shape |-> shape, stride |-> ContigStride(shape),
                                           base |-> id, ver |-> 0, op |-> op, args |-> args]),
                      !.r = id]

\* a new tensor object sharing the storage of t
Alias(m, t, shape, stride, op) ==
    IF m.err # NoErr THEN m
    ELSE LET id == Len(m.heap) + 1
         IN [m EXCEPT !.heap = Append(@, [shape |-> shape, stride |-> stride,
                                           base |-> m.heap[t].base, ver |-> 0,
                                           op |-> op, args |-> <<t>>]),
                      !.r = id]

\* ------------------------------------------------------- tensor primitives
\* Tensor.view: the sizes must describe the same number of elements (one -1 is
\* inferred) and the tensor must be contiguous; the result shares the storage
ViewOp(m, t, shape) ==
    IF m.err # NoErr THEN m
    ELSE LET x == m.heap[t]
             n == Prod(x.shape)
             holes == {i \in 1..Len(shape) : shape[i] = -1}
             known == Prod([i \in 1..Len(shape) |-> IF shape[i] = -1 THEN 1 ELSE shape[i]])
             inferred == [i \in 1..Len(shape) |->
                            IF shape[i] = -1 THEN n \div known ELSE shape[i]]
         IN IF (\E i \in 1..Len(shape) : shape[i] < -1) \/ Cardinality(holes) > 1
            THEN Fail(m, "RuntimeError")
            ELSE IF holes # {} /\ (known = 0 \/ n % known # 0)
            THEN Fail(m, "RuntimeError")
            ELSE IF Prod(inferred) # n \/ ~IsContiguous(x)
            THEN Fail(m, "RuntimeError")
            ELSE Alias(m, t, inferred, ContigStride(inferred), "view")

Swap(s, d0, d1) ==
    [i \in 1..Len(s) |-> IF i = d0 THEN s[d1] ELSE IF i = d1 THEN s[d0] ELSE s[i]]

\* Tensor.transpose(d0, d1), dimensions counted from 1 here: a view
TransposeOp(m, t, d0, d1) ==
    IF m.err # NoErr THEN m
    ELSE LET x == m.heap[t]
         IN IF d0 > Len(x.shape) \/ d1 > Len(x.shape) THEN Fail(m, "IndexError")
            ELSE Alias(m, t, Swap(x.shape, d0, d1), Swap(x.stride, d0, d1), "transpose")

\* Tensor.contiguous: the tensor itself when it is contiguous, else a copy
ContiguousOp(m, t) ==
    IF m.err # NoErr THEN m
    ELSE IF IsContiguous(m.heap[t]) THEN Ret(m, t)
    ELSE Alloc(m, m.heap[t].shape, "contiguous", <<t>>)

\* Tensor.unsqueeze(dim), dim counted from 1 here: a view with a size-1 axis
UnsqueezeOp(m, t, dim) ==
    IF m.err # NoErr THEN m
    ELSE LET x == m.heap[t]
             ins(s, v) == SubSeq(s, 1, dim - 1) \o <<v>> \o SubSeq(s, dim, Len(s))
         IN IF dim > Len(x.shape) + 1 THEN Fail(m, "IndexError")
            ELSE Alias(m, t, ins(x.shape, 1),
                       ins(x.stride, IF dim <= Len(x.shape)
                                     THEN x.shape[dim] * x.stride[dim] ELSE 1),
                       "unsqueeze")

\* an elementwise operation producing a new tensor of the same shape
Elementwise(m, t, op) ==
    IF m.err # NoErr THEN m ELSE Alloc(m, m.heap[t].shape, op, <<t>>)

\* torch.matmul on tensors of rank >= 2: batch axes broadcast, inner sizes agree
MatMul(m, a, b) ==
    IF m.err # NoErr THEN m
    ELSE LET sa == m.heap[a].shape
             sb == m.heap[b].shape
             ba == SubSeq(sa, 1, Len(sa) - 2)
             bb == SubSeq(sb, 1, Len(sb) - 2)
         IN IF Len(sa) < 2 \/ Len(sb) < 2 THEN Fail(m, "RuntimeError")
            ELSE IF Last(sa) # sb[Len(sb) - 1] \/ ~Broadcastable(ba, bb)
            THEN Fail(m, "RuntimeError")
            ELSE Alloc(m, BroadcastShape(ba, bb) \o <<sa[Len(sa) - 1], Last(sb)>>,
                       "matmul", <<a, b>>)

\* a.masked_fill(mask == 1, value): mask must broadcast to the shape of a
MaskedFill(m, a, mask) ==
    IF m.err # NoErr THEN m
    ELSE LET sa == m.heap[a].shape
             sm == m.heap[mask].shape
         IN IF ~Broadcastable(sa, sm) \/ BroadcastShape(sa, sm) # sa
            THEN Fail(m, "RuntimeError")
            ELSE Alloc(m, sa, "masked_fill", <<a, mask>>)

\* x[:, :n]: a view of the first n entries of the second axis
SliceOp(m, t, n) ==
    IF m.err # NoErr THEN m
    ELSE LET x == m.heap[t]
         IN IF Len(x.shape) < 2 THEN Fail(m, "IndexError")
            ELSE Alias(m, t, [i \in 1..Len(x.shape) |->
                                 IF i = 2 THEN Min(n, x.shape[2]) ELSE x.shape[i]],
                       x.stride, "slice")

\* Tensor.detach: a view
DetachOp(m, t) ==
    IF m.err # NoErr THEN m
    ELSE Alias(m, t, m.heap[t].shape, m.heap[t].stride, "detach")

\* nn.Dropout: the input itself when p = 0, in eval mode or on an empty tensor,
\* else a new tensor
DropoutFwd(m, self, t) ==
    IF m.err # NoErr THEN m
    ELSE IF self.p = 0 \/ ~m.training \/ Prod(m.heap[t].shape) = 0 THEN Ret(m, t)
    ELSE Alloc(m, m.heap[t].shape, "dropout", <<t>>)

\* a + b: a new tensor of the broadcast shape
AddOp(m, a, b) ==
    IF m.err # NoErr THEN m
    ELSE LET sa == m.heap[a].shape
             sb == m.heap[b].shape
         IN IF ~Broadcastable(sa, sb) THEN Fail(m, "RuntimeError")
            ELSE Alloc(m, BroadcastShape(sa, sb), "add", <<a, b>>)

\* the in-place addition with target and operand exchanged: writes the storage
\* of the tensor the code only reads
IAddIntoOperand(m, target, other) ==
    IF m.err # NoErr THEN m
    ELSE LET st == m.heap[target].shape
             so == m.heap[other].shape
             b == m.heap[other].base
         IN IF ~Broadcastable(st, so) \/ BroadcastShape(st, so) # so
            THEN Fail(m, "RuntimeError")
            ELSE [m EXCEPT !.heap[b].ver = @ + 1, !.r = other]

\* target += other: writes the storage of the target, whose shape cannot change
IAddOp(m, target, other) ==
    IF m.err # NoErr THEN m
    ELSE LET st == m.heap[target].shape
             so == m.heap[other].shape
             b == m.heap[target].base
         IN IF ~Broadcastable(st, so) \/ BroadcastShape(st, so) # st
            THEN Fail(m, "RuntimeError")
            ELSE [m EXCEPT !.heap[b].ver = @ + 1, !.r = target]

\* ------------------------------------------------------- library modules
Builtins == {"Linear", "LayerNorm", "Dropout"}

\* nn.Linear(in_features, out_features, bias): allocates weight (and bias)
NewLinear(m, a) ==
    IF a.in_features < 0 \/ a.out_features < 0 THEN Fail(m, "RuntimeError")
    ELSE IF a.bias
    THEN Ret(Alloc(Alloc(m, <<a.out_features, a.in_features>>, "param", << >>),
                   <<a.out_features>>, "param", << >>),
             [cls |-> "Linear", in_features |-> a.in_features,
              out_features |-> a.out_features, weight |-> Len(m.heap) + 1,
              bias |-> Len(m.heap) + 2])
    ELSE Ret(Alloc(m, <<a.out_features, a.in_features>>, "param", << >>),
             [cls |-> "Linear", in_features |-> a.in_features,
              out_features |-> a.out_features, weight |-> Len(m.heap) + 1,
              bias |-> None])

LinearFwd(m, self, x) ==
    IF m.err # NoErr THEN m
    ELSE LET s == m.heap[x].shape
         IN IF Len(s) = 0 \/ Last(s) # self.in_features THEN Fail(m, "RuntimeError")
            ELSE Alloc(m, Front(s) \o <<self.out_features>>, "linear", <<x, self.weight>>)

\* nn.LayerNorm(normalized_shape, eps): allocates weight and bias
NewLayerNorm(m, a) ==
    Ret(Alloc(Alloc(m, <<a.normalized_shape>>, "param", << >>),
              <<a.normalized_shape>>, "param", << >>),
        [cls |-> "LayerNorm", normalized_shape |-> a.normalized_shape,
         weight |-> Len(m.heap) + 1, bias |-> Len(m.heap) + 2])

LayerNormFwd(m, self, x) ==
    IF m.err # NoErr THEN m
    ELSE LET s == m.heap[x].shape
         IN IF Len(s) = 0 \/ Last(s) # self.normalized_shape THEN Fail(m, "RuntimeError")
            ELSE Alloc(m, s, "layer_norm", <<x>>)

\* nn.Dropout(p)
NewDropout(m, a) == Ret(m, [cls |-> "Dropout", p |-> a.p])

\* _get_sinusoid_encoding_table(n_position, d_hid): a [1, n_position, d_hid]
\* tensor.  With n_position <= 0 the numpy array built from the empty list has
\* one axis and the column slices raise IndexError; range(d_hid) is empty for
\* d_hid <= 0
SinusoidTable(m, n_position, d_hid) ==
    IF m.err # NoErr THEN m
    ELSE IF n_position <= 0 THEN Fail(m, "IndexError")
    ELSE Alloc(m, <<1, n_position, Max(d_hid, 0)>>, "sinusoid_table", << >>)

\* ---------------------------------------------------------- statements
\* dst = <kind>(srcs..., x): a tensor operation on local variables
T(kind, dst, srcs, x) == [op |-> "tensor", kind |-> kind, dst |-> dst, srcs |-> srcs, x |-> x]
\* dst = src
Assign(dst, src) == [op |-> "assign", dst |-> dst, src |-> src]
\* dst = src.size(dim)
Size(dst, src, dim) == [op |-> "size", dst |-> dst, src |-> src, dim |-> dim]
\* dsts = self.<attr>(*args, **kw)
CallAttr(dsts, attr, args, kw) ==
    [op |-> "call_attr", dsts |-> dsts, attr |-> attr, args |-> args, kw |-> kw]
\* dsts = <var>(*args, **kw)
CallVar(dsts, var, args, kw) ==
    [op |-> "call_var", dsts |-> dsts, var |-> var, args |-> args, kw |-> kw]
\* if <test> is not None: body
IfNotNone(test, body) == [op |-> "if_not_none", test |-> test, body |-> body]
\* if <test>: body
If(test, body) == [op |-> "if", test |-> test, body |-> body]
\* for <var> in self.<attr>: body
For(var, attr, body) == [op |-> "for", var |-> var, attr |-> attr, body |-> body]
\* dst = []
EmptyList(dst) == [op |-> "empty_list", dst |-> dst]
\* list.append(src)
ListAppend(list, src) == [op |-> "append", list |-> list, src |-> src]
\* return srcs (one value, or a tuple)
Return(srcs) == [op |-> "return", srcs |-> srcs]
\* self.<attr> = value
SetAttr(attr, value) == [op |-> "set_attr", attr |-> attr, value |-> value]
\* self.<attr> = cls(**args)
New(attr, cls, args) == [op |-> "new", attr |-> attr, cls |-> cls, args |-> args]
\* self.<attr> = nn.ModuleList([cls(**args) for _ in range(n)])
NewList(attr, cls, args, n) ==
    [op |-> "new_list", attr |-> attr, cls |-> cls, args |-> args, n |-> n]
\* self.register_buffer(attr, _get_sinusoid_encoding_table(n_position, d_hid))
Buffer(attr, n_position, d_hid) ==
    [op |-> "buffer", attr |-> attr, n_position |-> n_position, d_hid |-> d_hid]

\* the sizes of a view: a local variable, an attribute of self, or a literal
V(name) == [k |-> "var", name |-> name, v |-> 0]
A(name) == [k |-> "attr", name |-> name, v |-> 0]
K(v) == [k |-> "lit", name |-> "", v |-> v]
NoKw == << >>

\* the machine with local variable dst set to the last result
Store(m, dst) == IF m.err # NoErr THEN m ELSE [m EXCEPT !.reg = (dst :> m.r) @@ m.reg]
\* the machine with local variable dst set to v
Bind(m, dst, v) == IF m.err # NoErr THEN m ELSE [m EXCEPT !.reg = (dst :> v) @@ m.reg]
\* the machine with attribute attr of self set to the last result
StoreAttr(m, attr) ==
    IF m.err # NoErr THEN m
    ELSE [m EXCEPT !.reg = ("self" :> ((attr :> m.r) @@ m.reg.self)) @@ m.reg]

\* self.<name>: nn.Module.__getattr__ raises AttributeError for a name never set
GetAttr(m, name) ==
    IF m.err # NoErr THEN m
    ELSE IF name \notin DOMAIN m.reg.self THEN Fail(m, "AttributeError")
    ELSE Ret(m, m.reg.self[name])

\* a tensor operation on the values of local variables
TensorOp(m, i) ==
    LET f == m.reg
        s1 == f[i.srcs[1]]
    IN CASE i.kind = "view" ->
               ViewOp(m, s1, [j \in 1..Len(i.x) |->
                                 CASE i.x[j].k = "var" -> f[i.x[j].name]
                                   [] i.x[j].k = "attr" -> f.self[i.x[j].name]
                                   [] OTHER -> i.x[j].v])
         [] i.kind = "transpose" -> TransposeOp(m, s1, i.x[1] + 1, i.x[2] + 1)
         [] i.kind = "contiguous" -> ContiguousOp(m, s1)
         [] i.kind = "unsqueeze" -> UnsqueezeOp(m, s1, i.x + 1)
         [] i.kind = "matmul" -> MatMul(m, s1, f[i.srcs[2]])
         [] i.kind = "masked_fill" -> MaskedFill(m, s1, f[i.srcs[2]])
         [] i.kind = "add" -> AddOp(m, s1, f[i.srcs[2]])
         [] i.kind = "iadd" -> IAddOp(m, s1, f[i.srcs[2]])
         [] i.kind = "slice" -> SliceOp(m, s1, f[i.x])
         [] i.kind = "detach" -> DetachOp(m, s1)
         [] i.kind = "attr" -> GetAttr(m, i.x)
         [] OTHER -> Elementwise(m, s1, i.kind)   \* div, eq, softmax, relu, clone

\* ------------------------------------------------------------ the source
P(name) == [name |-> name, opt |-> FALSE, default |-> None]
O(name, default) == [name |-> name, opt |-> TRUE, default |-> default]

\* the parameters of forward, after self
Params(cls) ==
    CASE cls = "ScaledDotProductAttention" ->
            <<P("q"), P("k"), P("v"), O("attn_mask", None)>>
      [] cls = "MultiHeadAttention" -> <<P("q"), P("k"), P("v"), P("attn_mask")>>
      [] cls = "PositionWiseFeedForward" -> <<P("x")>>
      [] cls = "EncoderLayer" -> <<P("enc_input"), O("src_mask", None)>>
      [] cls = "DecoderLayer" ->
            <<P("dec_input"), P("enc_output"), O("slf_attn_mask", None),
              O("dec_enc_attn_mask", None)>>
      [] cls = "Encoder" ->
            <<P("x"), O("src_mask", None), O("return_attn_weights", FALSE)>>
      [] cls = "Decoder" ->
            <<P("trg_seq"), P("enc_output"), O("trg_mask", None), O("src_mask", None),
              O("return_attn_weights", FALSE)>>
      [] cls = "PositionalEncoding" -> <<P("x")>>

\* ScaledDotProductAttention.forward
SDPAForwardBody ==
    << T("div", "t", <<"q">>, "temperature"),
       T("transpose", "kT", <<"k">>, <<2, 3>>),
       T("matmul", "attn", <<"t", "kT">>, 0),
       IfNotNone("attn_mask",
           << T("eq", "t", <<"attn_mask">>, 1),
              T("masked_fill", "attn", <<"attn", "t">>, 0) >>),
       T("softmax", "attn", <<"attn">>, -1),
       CallAttr(<<"attn">>, "dropout", <<"attn">>, NoKw),
       T("matmul", "output", <<"attn", "v">>, 0),
       Return(<<"output", "attn">>) >>

\* MultiHeadAttention.forward merging the heads without transposing them back
MHAForwardBodyUntransposed ==
    << Size("batch_size", "q", 0),
       Size("n_steps", "q", 1),
       Assign("residual", "q"),
       CallAttr(<<"q">>, "w_qs", <<"q">>, NoKw),
       T("view", "q", <<"q">>, <<V("batch_size"), V("n_steps"), A("n_head"), A("d_k")>>),
       CallAttr(<<"k">>, "w_ks", <<"k">>, NoKw),
       T("view", "k", <<"k">>, <<V("batch_size"), V("n_steps"), A("n_head"), A("d_k")>>),
       CallAttr(<<"v">>, "w_vs", <<"v">>, NoKw),
       T("view", "v", <<"v">>, <<V("batch_size"), V("n_steps"), A("n_head"), A("d_v")>>),
       T("transpose", "q", <<"q">>, <<1, 2>>),
       T("transpose", "k", <<"k">>, <<1, 2>>),
       T("transpose", "v", <<"v">>, <<1, 2>>),
       IfNotNone("attn_mask", << T("unsqueeze", "attn_mask", <<"attn_mask">>, 1) >>),
       CallAttr(<<"v", "attn_weights">>, "attention", <<"q", "k", "v", "attn_mask">>, NoKw),
       T("transpose", "v", <<"v">>, <<1, 1>>),
       T("contiguous", "v", <<"v">>, 0),
       T("view", "v", <<"v">>, <<V("batch_size"), V("n_steps"), K(-1)>>),
       CallAttr(<<"v">>, "fc", <<"v">>, NoKw),
       CallAttr(<<"v">>, "dropout", <<"v">>, NoKw),
       T("iadd", "v", <<"v", "residual">>, 0),
       CallAttr(<<"v">>, "layer_norm", <<"v">>, NoKw),
       Return(<<"v", "attn_weights">>) >>

\* MultiHeadAttention.forward
MHAForwardBody ==
    << Size("batch_size", "q", 0),
       Size("n_steps", "q", 1),
       Assign("residual", "q"),
       CallAttr(<<"q">>, "w_qs", <<"q">>, NoKw),
       T("view", "q", <<"q">>, <<V("batch_size"), V("n_steps"), A("n_head"), A("d_k")>>),
       CallAttr(<<"k">>, "w_ks", <<"k">>, NoKw),
       T("view", "k", <<"k">>, <<V("batch_size"), V("n_steps"), A("n_head"), A("d_k")>>),
       CallAttr(<<"v">>, "w_vs", <<"v">>, NoKw),
       T("view", "v", <<"v">>, <<V("batch_size"), V("n_steps"), A("n_head"), A("d_v")>>),
       T("transpose", "q", <<"q">>, <<1, 2>>),
       T("transpose", "k", <<"k">>, <<1, 2>>),
       T("transpose", "v", <<"v">>, <<1, 2>>),
       IfNotNone("attn_mask", << T("unsqueeze", "attn_mask", <<"attn_mask">>, 1) >>),
       CallAttr(<<"v", "attn_weights">>, "attention", <<"q", "k", "v", "attn_mask">>, NoKw),
       T("transpose", "v", <<"v">>, <<1, 2>>),
       T("contiguous", "v", <<"v">>, 0),
       T("view", "v", <<"v">>, <<V("batch_size"), V("n_steps"), K(-1)>>),
       CallAttr(<<"v">>, "fc", <<"v">>, NoKw),
       CallAttr(<<"v">>, "dropout", <<"v">>, NoKw),
       T("iadd", "v", <<"v", "residual">>, 0),
       CallAttr(<<"v">>, "layer_norm", <<"v">>, NoKw),
       Return(<<"v", "attn_weights">>) >>

\* PositionWiseFeedForward.forward
PWFFForwardBody ==
    << Assign("residual", "x"),
       CallAttr(<<"x">>, "linear_1", <<"x">>, NoKw),
       T("relu", "x", <<"x">>, 0),
       CallAttr(<<"x">>, "linear_2", <<"x">>, NoKw),
       CallAttr(<<"x">>, "dropout", <<"x">>, NoKw),
       T("iadd", "x", <<"x", "residual">>, 0),
       CallAttr(<<"x">>, "layer_norm", <<"x">>, NoKw),
       Return(<<"x">>) >>

\* EncoderLayer.forward
EncoderLayerForwardBody ==
    << CallAttr(<<"enc_output", "attn_weights">>, "slf_attn",
                <<"enc_input", "enc_input", "enc_input">>,
                << <<"attn_mask", "src_mask">> >>),
       CallAttr(<<"enc_output">>, "pos_ffn", <<"enc_output">>, NoKw),
       Return(<<"enc_output", "attn_weights">>) >>

\* DecoderLayer.forward
DecoderLayerForwardBody ==
    << CallAttr(<<"dec_output", "dec_slf_attn">>, "slf_attn",
                <<"dec_input", "dec_input", "dec_input">>,
                << <<"mask", "slf_attn_mask">> >>),
       CallAttr(<<"dec_output", "dec_enc_attn">>, "enc_attn",
                <<"dec_output", "enc_output", "enc_output">>,
                << <<"mask", "dec_enc_attn_mask">> >>),
       CallAttr(<<"dec_output">>, "pos_ffn", <<"dec_output">>, NoKw),
       Return(<<"dec_output", "dec_slf_attn", "dec_enc_attn">>) >>

\* Encoder.forward applying the layers only when the weights are asked for
EncoderForwardBodyFlagged ==
    << CallAttr(<<"x">>, "embedding", <<"x">>, NoKw),
       CallAttr(<<"enc_output">>, "position_enc", <<"x">>, NoKw),
       CallAttr(<<"enc_output">>, "dropout", <<"enc_output">>, NoKw),
       EmptyList("attn_weights_collector"),
       If("return_attn_weights",
           << For("layer", "enc_layer_stack",
                  << CallVar(<<"enc_output", "attn_weights">>, "layer",
                             <<"enc_output", "src_mask">>, NoKw),
                     ListAppend("attn_weights_collector", "attn_weights") >>),
              Return(<<"enc_output", "attn_weights_collector">>) >>),
       Return(<<"enc_output">>) >>

\* Encoder.forward
EncoderForwardBody ==
    << CallAttr(<<"x">>, "embedding", <<"x">>, NoKw),
       CallAttr(<<"enc_output">>, "position_enc", <<"x">>, NoKw),
       CallAttr(<<"enc_output">>, "dropout", <<"enc_output">>, NoKw),
       EmptyList("attn_weights_collector"),
       For("layer", "enc_layer_stack",
           << CallVar(<<"enc_output", "attn_weights">>, "layer",
                      <<"enc_output", "src_mask">>, NoKw),
              ListAppend("attn_weights_collector", "attn_weights") >>),
       If("return_attn_weights",
           << Return(<<"enc_output", "attn_weights_collector">>) >>),
       Return(<<"enc_output">>) >>

\* Decoder.forward
DecoderForwardBody ==
    << CallAttr(<<"trg_seq">>, "embedding", <<"trg_seq">>, NoKw),
       CallAttr(<<"dec_output">>, "position_enc", <<"trg_seq">>, NoKw),
       CallAttr(<<"dec_output">>, "dropout", <<"dec_output">>, NoKw),
       EmptyList("dec_slf_attn_collector"),
       EmptyList("dec_enc_attn_collector"),
       For("layer", "layer_stack",
           << CallVar(<<"dec_output", "dec_slf_attn", "dec_enc_attn">>, "layer",
                      <<"dec_output", "enc_output">>,
                      << <<"slf_attn_mask", "trg_mask">>,
                         <<"dec_enc_attn_mask", "src_mask">> >>),
              ListAppend("dec_slf_attn_collector", "dec_slf_attn"),
              ListAppend("dec_enc_attn_collector", "dec_enc_attn") >>),
       If("return_attn_weights",
           << Return(<<"dec_output", "dec_slf_attn_collector",
                       "dec_enc_attn_collector">>) >>),
       Return(<<"dec_output">>) >>

\* PositionalEncoding.forward: x + self.pos_table[:, : x.size(1)].clone().detach()
PositionalEncodingForwardBody ==
    << T("attr", "t", << >>, "pos_table"),
       Size("n", "x", 1),
       T("slice", "t", <<"t">>, "n"),
       T("clone", "t", <<"t">>, 0),
       T("detach", "t", <<"t">>, 0),
       T("add", "t", <<"x", "t">>, 0),
       Return(<<"t">>) >>

ForwardBody(cls) ==
    CASE cls = "ScaledDotProductAttention" -> SDPAForwardBody
      [] cls = "MultiHeadAttention" -> MHAForwardBody
      [] cls = "PositionWiseFeedForward" -> PWFFForwardBody
      [] cls = "EncoderLayer" -> EncoderLayerForwardBody
      [] cls = "DecoderLayer" -> DecoderLayerForwardBody
      [] cls = "Encoder" -> EncoderForwardBody
      [] cls = "Decoder" -> DecoderForwardBody
      [] cls = "PositionalEncoding" -> PositionalEncodingForwardBody

\* ScaledDotProductAttention.__init__(temperature, attn_dropout)
SDPAInitBody(a) ==
    << SetAttr("temperature", a.temperature),
       New("dropout", "Dropout", [p |-> a.attn_dropout]) >>

\* MultiHeadAttention.__init__(n_heads, d_model, d_k, d_v, dropout, attn_dropout)
MHAInitBody(a) ==
    << SetAttr("n_head", a.n_heads),
       SetAttr("d_k", a.d_k),
       SetAttr("d_v", a.d_v),
       New("w_qs", "Linear", [in_features |-> a.d_model,
                              out_features |-> a.n_heads * a.d_k, bias |-> FALSE]),
       New("w_ks", "Linear", [in_features |-> a.d_model,
                              out_features |-> a.n_heads * a.d_k, bias |-> FALSE]),
       New("w_vs", "Linear", [in_features |-> a.d_model,
                              out_features |-> a.n_heads * a.d_v, bias |-> FALSE]),
       New("attention", "ScaledDotProductAttention",
           [temperature |-> <<a.d_k, "**0.5">>, attn_dropout |-> a.attn_dropout]),
       New("fc", "Linear", [in_features |-> a.n_heads * a.d_v,
                            out_features |-> a.d_model, bias |-> FALSE]),
       New("dropout", "Dropout", [p |-> a.dropout]),
       New("layer_norm", "LayerNorm", [normalized_shape |-> a.d_model]) >>

\* PositionWiseFeedForward.__init__(d_in, d_hid, dropout)
PWFFInitBody(a) ==
    << New("linear_1", "Linear", [in_features |-> a.d_in, out_features |-> a.d_hid,
                                  bias |-> TRUE]),
       New("linear_2", "Linear", [in_features |-> a.d_hid, out_features |-> a.d_in,
                                  bias |-> TRUE]),
       New("layer_norm", "LayerNorm", [normalized_shape |-> a.d_in]),
       New("dropout", "Dropout", [p |-> a.dropout]) >>

\* EncoderLayer.__init__(d_model, d_inner, n_head, d_k, d_v, dropout, attn_dropout)
EncoderLayerInitBody(a) ==
    << New("slf_attn", "MultiHeadAttention",
           [n_heads |-> a.n_head, d_model |-> a.d_model, d_k |-> a.d_k, d_v |-> a.d_v,
            dropout |-> a.dropout, attn_dropout |-> a.attn_dropout]),
       New("pos_ffn", "PositionWiseFeedForward",
           [d_in |-> a.d_model, d_hid |-> a.d_inner, dropout |-> a.dropout]) >>

\* DecoderLayer.__init__(d_model, d_inner, n_head, d_k, d_v, dropout, attn_dropout)
DecoderLayerInitBody(a) ==
    << New("slf_attn", "MultiHeadAttention",
           [n_heads |-> a.n_head, d_model |-> a.d_model, d_k |-> a.d_k, d_v |-> a.d_v,
            dropout |-> a.dropout, attn_dropout |-> a.attn_dropout]),
       New("enc_attn", "MultiHeadAttention",
           [n_heads |-> a.n_head, d_model |-> a.d_model, d_k |-> a.d_k, d_v |-> a.d_v,
            dropout |-> a.dropout, attn_dropout |-> a.attn_dropout]),
       New("pos_ffn", "PositionWiseFeedForward",
           [d_in |-> a.d_model, d_hid |-> a.d_inner, dropout |-> a.dropout]) >>

\* the arguments Encoder and Decoder construct each layer with
LayerArgs(a) ==
    [d_model |-> a.d_model, d_inner |-> a.d_inner, n_head |-> a.n_heads, d_k |-> a.d_k,
     d_v |-> a.d_v, dropout |-> a.dropout, attn_dropout |-> a.attn_dropout]

\* Encoder.__init__(n_layers, n_steps, n_features, d_model, d_inner, n_heads, d_k,
\*                  d_v, dropout, attn_dropout)
EncoderInitBody(a) ==
    << New("embedding", "Linear", [in_features |-> a.n_features,
                                   out_features |-> a.d_model, bias |-> TRUE]),
       New("dropout", "Dropout", [p |-> a.dropout]),
       New("position_enc", "PositionalEncoding",
           [d_hid |-> a.d_model, n_position |-> a.n_steps]),
       NewList("enc_layer_stack", "EncoderLayer", LayerArgs(a), a.n_layers) >>

\* Decoder.__init__(n_layers, n_steps, n_features, d_model, d_inner, n_heads, d_k,
\*                  d_v, dropout, attn_dropout)
DecoderInitBody(a) ==
    << New("embedding", "Linear", [in_features |-> a.n_features,
                                   out_features |-> a.d_model, bias |-> TRUE]),
       New("dropout", "Dropout", [p |-> a.dropout]),
       New("position_enc", "PositionalEncoding",
           [d_hid |-> a.d_model, n_position |-> a.n_steps]),
       NewList("dec_layer_stack", "DecoderLayer", LayerArgs(a), a.n_layers) >>

\* PositionalEncoding.__init__(d_hid, n_position)
PositionalEncodingInitBody(a) ==
    << Buffer("pos_table", a.n_position, a.d_hid) >>

InitBody(cls, a) ==
    CASE cls = "ScaledDotProductAttention" -> SDPAInitBody(a)
      [] cls = "MultiHeadAttention" -> MHAInitBody(a)
      [] cls = "PositionWiseFeedForward" -> PWFFInitBody(a)
      [] cls = "EncoderLayer" -> EncoderLayerInitBody(a)
      [] cls = "DecoderLayer" -> DecoderLayerInitBody(a)
      [] cls = "Encoder" -> EncoderInitBody(a)
      [] cls = "Decoder" -> DecoderInitBody(a)
      [] cls = "PositionalEncoding" -> PositionalEncodingInitBody(a)

\* ---------------------------------------------------------- the interpreter
RECURSIVE Exec(_, _, _), Step(_, _), Call(_, _, _, _), Construct(_, _, _),
          ForEach(_, _, _, _, _), ConstructList(_, _, _, _, _), ConstructNext(_, _, _, _, _)

\* the statements prog[i..] in order, until one raises or returns
Exec(m, prog, i) ==
    IF m.err # NoErr \/ m.returned \/ i > Len(prog) THEN m
    ELSE Exec(Step(m, prog[i]), prog, i + 1)

\* the body once for each item, the loop variable bound to it
ForEach(m, var, items, body, j) ==
    IF m.err # NoErr \/ m.returned \/ j > Len(items) THEN m
    ELSE ForEach(Exec(Bind(m, var, items[j]), body, 1), var, items, body, j + 1)

\* dsts = <the last result>, a tuple unpacked when there are several targets
Unpack(m, dsts) ==
    IF m.err # NoErr THEN m
    ELSE [m EXCEPT !.reg =
            [n \in DOMAIN m.reg \cup {dsts[j] : j \in 1..Len(dsts)} |->
                IF \E j \in 1..Len(dsts) : dsts[j] = n
                THEN IF Len(dsts) = 1 THEN m.r
                     ELSE m.r[CHOOSE j \in 1..Len(dsts) : dsts[j] = n]
                ELSE m.reg[n]]]

\* the end of a forward call: the caller's variables are back and the call is logged
Leave(m, reg, callee, frame) ==
    IF m.err # NoErr THEN m
    ELSE [m EXCEPT !.reg = reg, !.returned = FALSE,
                   !.log = Append(@, [cls |-> callee.cls, oid |-> callee.oid,
                                      args |-> [n \in DOMAIN frame \ {"self"} |-> frame[n]],
                                      r |-> m.r])]

\* callee(*args, **kw): nn.Module.__call__ passes the arguments to forward.
\* Python binds them to the parameters: too many positional arguments, an
\* unknown or doubly bound keyword, or an unbound parameter without a default
\* is a TypeError
Call(m, callee, args, kw) ==
    IF m.err # NoErr THEN m
    ELSE IF callee.cls = "Linear" THEN LinearFwd(m, callee, args[1])
    ELSE IF callee.cls = "LayerNorm" THEN LayerNormFwd(m, callee, args[1])
    ELSE IF callee.cls = "Dropout" THEN DropoutFwd(m, callee, args[1])
    ELSE LET ps == Params(callee.cls)
             pos(n) == CHOOSE j \in 1..Len(ps) : ps[j].name = n
             names == {ps[j].name : j \in 1..Len(ps)}
             kwn == {kw[j][1] : j \in 1..Len(kw)}
             frame == [n \in names \cup {"self"} |->
                         IF n = "self" THEN callee
                         ELSE IF pos(n) <= Len(args) THEN args[pos(n)]
                         ELSE IF n \in kwn
                         THEN kw[CHOOSE j \in 1..Len(kw) : kw[j][1] = n][2]
                         ELSE ps[pos(n)].default]
         IN IF \/ Len(args) > Len(ps)
               \/ \E n \in kwn : n \notin names \/ pos(n) <= Len(args)
               \/ \E j \in 1..Len(ps) : j > Len(args) /\ ps[j].name \notin kwn /\ ~ps[j].opt
            THEN Fail(m, "TypeError")
            ELSE Leave(Exec([m EXCEPT !.reg = frame, !.returned = FALSE],
                            ForwardBody(callee.cls), 1),
                       m.reg, callee, frame)

\* the end of __init__: the new object is the result
EndInit(m, reg) ==
    IF m.err # NoErr THEN m
    ELSE [m EXCEPT !.r = m.reg.self, !.reg = reg, !.returned = FALSE]

\* cls(**a)
Construct(m, cls, a) ==
    IF m.err # NoErr THEN m
    ELSE IF cls = "Linear" THEN NewLinear(m, a)
    ELSE IF cls = "LayerNorm" THEN NewLayerNorm(m, a)
    ELSE IF cls = "Dropout" THEN NewDropout(m, a)
    ELSE EndInit(Exec([m EXCEPT !.reg = [self |-> [cls |-> cls, oid |-> m.nobj + 1]],
                                !.nobj = @ + 1],
                      InitBody(cls, a), 1),
                 m.reg)

\* [cls(**a) for _ in range(n)]
ConstructList(m, cls, a, n, acc) ==
    IF m.err # NoErr THEN m
    ELSE IF n <= 0 THEN Ret(m, acc)
    ELSE ConstructNext(Construct(m, cls, a), cls, a, n, acc)

ConstructNext(m, cls, a, n, acc) ==
    IF m.err # NoErr THEN m
    ELSE ConstructList(m, cls, a, n - 1, Append(acc, m.r))

\* one statement
Step(m, i) ==
    CASE i.op = "tensor" -> Store(TensorOp(m, i), i.dst)
      [] i.op = "assign" -> Bind(m, i.dst, m.reg[i.src])
      [] i.op = "size" ->
            IF i.dim + 1 > Len(m.heap[m.reg[i.src]].shape) THEN Fail(m, "IndexError")
            ELSE Bind(m, i.dst, m.heap[m.reg[i.src]].shape[i.dim + 1])
      [] i.op = "call_attr" ->
            IF i.attr \notin DOMAIN m.reg.self THEN Fail(m, "AttributeError")
            ELSE Unpack(Call(m, m.reg.self[i.attr],
                             [j \in 1..Len(i.args) |-> m.reg[i.args[j]]],
                             [j \in 1..Len(i.kw) |-> <<i.kw[j][1], m.reg[i.kw[j][2]]>>]),
                        i.dsts)
      [] i.op = "call_var" ->
            Unpack(Call(m, m.reg[i.var],
                        [j \in 1..Len(i.args) |-> m.reg[i.args[j]]],
                        [j \in 1..Len(i.kw) |-> <<i.kw[j][1], m.reg[i.kw[j][2]]>>]),
                   i.dsts)
      [] i.op = "if_not_none" ->
            IF m.reg[i.test] # None THEN Exec(m, i.body, 1) ELSE m
      [] i.op = "if" -> IF m.reg[i.test] THEN Exec(m, i.body, 1) ELSE m
      [] i.op = "for" ->
            IF i.attr \notin DOMAIN m.reg.self THEN Fail(m, "AttributeError")
            ELSE ForEach(m, i.var, m.reg.self[i.attr], i.body, 1)
      [] i.op = "empty_list" -> Bind(m, i.dst, << >>)
      [] i.op = "append" -> Bind(m, i.list, Append(m.reg[i.list], m.reg[i.src]))
      [] i.op = "return" ->
            [m EXCEPT !.returned = TRUE, !.nret = Len(i.srcs),
                      !.r = IF Len(i.srcs) = 1 THEN m.reg[i.srcs[1]]
                            ELSE [j \in 1..Len(i.srcs) |-> m.reg[i.srcs[j]]]]
      [] i.op = "set_attr" -> StoreAttr(Ret(m, i.value), i.attr)
      [] i.op = "new" -> StoreAttr(Construct(m, i.cls, i.args), i.attr)
      [] i.op = "new_list" -> StoreAttr(ConstructList(m, i.cls, i.args, i.n, << >>), i.attr)
      [] i.op = "buffer" -> StoreAttr(SinusoidTable(m, i.n_position, i.d_hid), i.attr)

\* ------------------------------------------------------ loading the module
\* the class statements of the module, in order
ClassOrder ==
    << "ScaledDotProductAttention", "MultiHeadAttention", "PositionWiseFeedForward",
       "EncoderLayer", "DecoderLayer", "Encoder", "Decoder", "PositionalEncoding" >>

\* the numbers of arguments the annotations of the class give to typing.Optional
OptionalArgs(c) ==
    CASE c = "Encoder" -> {1, 2}
      [] c \in {"MultiHeadAttention", "EncoderLayer", "DecoderLayer", "Decoder"} -> {1}
      [] OTHER -> {}

\* typing.Optional[X, Y] is a TypeError ("Optional requires a single type"),
\* raised when the annotation is evaluated: while the class body runs on an
\* interpreter that evaluates annotations at definition, never at import on one
\* that defers them
ClassStatementRaises(c) ==
    annotations = "eager" /\ \E n \in OptionalArgs(c) : n # 1

\* ---------------------------------------------------------- configurations
TestedClasses ==
    {"MultiHeadAttention", "PositionWiseFeedForward", "EncoderLayer", "DecoderLayer",
     "Encoder", "Decoder"}

Dimensions == {"n_layers", "n_steps", "n_features", "d_model", "d_inner", "n_heads",
               "d_k", "d_v"}

\* the constructor arguments of each class, under the names Encoder gives them
FieldsOf(c) ==
    CASE c = "MultiHeadAttention" ->
            {"n_heads", "d_model", "d_k", "d_v", "dropout", "attn_dropout"}
      [] c = "PositionWiseFeedForward" -> {"d_model", "d_inner", "dropout"}
      [] c \in {"EncoderLayer", "DecoderLayer"} ->
            {"d_model", "d_inner", "n_heads", "d_k", "d_v", "dropout", "attn_dropout"}
      [] OTHER -> Dimensions \cup {"dropout", "attn_dropout"}

BaseConfig ==
    [n_layers |-> 1, n_steps |-> MaxSteps, n_features |-> 3, d_model |-> 2, d_inner |-> 3,
     n_heads |-> 2, d_k |-> 1, d_v |-> 1, dropout |-> 0, attn_dropout |-> 0]

AllConfigs ==
    { [n_layers |-> nl, n_steps |-> ns, n_features |-> nf, d_model |-> g[2],
       d_inner |-> di, n_heads |-> g[1], d_k |-> g[3], d_v |-> g[4], dropout |-> p,
       attn_dropout |-> ap] :
        nl \in 1..MaxLayers, ns \in 1..MaxSteps, nf \in FeatureWidths, g \in Geometries,
        di \in InnerWidths, p \in Probabilities, ap \in Probabilities }

\* the arguments a class does not take stay at their base value
ValidConfigs(c) ==
    {cfg \in AllConfigs :
        \A f \in DOMAIN BaseConfig \ FieldsOf(c) : cfg[f] = BaseConfig[f]}

\* one dimension zero or negative
InvalidConfigs(c) ==
    { [BaseConfig EXCEPT ![f] = v] : f \in Dimensions \cap FieldsOf(c), v \in InvalidDims }

IsValidConfig(c, cfg) == \A f \in Dimensions \cap FieldsOf(c) : cfg[f] > 0

\* the keyword arguments cls is constructed with
CtorArgs(c, cfg) ==
    CASE c = "MultiHeadAttention" ->
            [n_heads |-> cfg.n_heads, d_model |-> cfg.d_model, d_k |-> cfg.d_k,
             d_v |-> cfg.d_v, dropout |-> cfg.dropout, attn_dropout |-> cfg.attn_dropout]
      [] c = "PositionWiseFeedForward" ->
            [d_in |-> cfg.d_model, d_hid |-> cfg.d_inner, dropout |-> cfg.dropout]
      [] c \in {"EncoderLayer", "DecoderLayer"} -> LayerArgs(cfg)
      [] OTHER -> cfg

\* ------------------------------------------------------------ the program
Init ==
    /\ annotations \in {"eager", "deferred"}
    /\ classes = {}
    /\ load = "unloaded"
    /\ heap = << >>
    /\ module = NoModule
    /\ call = NoCall
    /\ sdpa = [pc |-> "idle"]
    /\ pe = [pc |-> "idle"]

\* import pypots.modules.self_attention: the class statements run in order and
\* the first exception ends the import, leaving no module to take classes from
LoadModule ==
    /\ load = "unloaded"
    /\ IF \E j \in 1..Len(ClassOrder) : ClassStatementRaises(ClassOrder[j])
       THEN load' = "TypeError" /\ classes' = {}
       ELSE load' = "ok" /\ classes' = {ClassOrder[j] : j \in 1..Len(ClassOrder)}
    /\ UNCHANGED <<annotations, heap, module, call, sdpa, pe>>

\* module = cls(**cfg)
Construction(c, cfg) ==
    LET m == Construct(Machine(<< >>, TRUE), c, CtorArgs(c, cfg))
    IN /\ heap' = m.heap
       /\ module' = [cls |-> c, cfg |-> cfg, self |-> m.r]
       /\ call' = [op |-> "init", err |-> m.err]

NewModule ==
    /\ load = "ok"
    /\ call = NoCall
    /\ \E c \in classes \cap TestedClasses :
          \E cfg \in ValidConfigs(c) \cup InvalidConfigs(c) : Construction(c, cfg)
    /\ UNCHANGED <<annotations, classes, load, sdpa, pe>>

\* the input tensors of a call: << >> stands for an argument left None
RECURSIVE AllocInputs(_, _, _)
AllocInputs(m, shapes, i) ==
    IF i > Len(shapes) THEN m
    ELSE AllocInputs(IF shapes[i] = << >> THEN m ELSE Alloc(m, shapes[i], "input", << >>),
                     shapes, i + 1)

InputIds(h, shapes) ==
    [i \in 1..Len(shapes) |->
        IF shapes[i] = << >> THEN None
        ELSE Len(h) + Cardinality({j \in 1..i : shapes[j] # << >>})]

\* the size of an input axis that follows a configured dimension
Dim(n) == Max(n, 0)

\* a constructed module is ready for its (one) forward call
Ready(c) == call.op = "init" /\ call.err = NoErr /\ module.cls = c

\* module(*inputs, **kw) in the given mode (module.train() / module.eval())
Invoke(training, shapes, kw) ==
    LET m0 == AllocInputs(Machine(heap, training), shapes, 1)
        ids == InputIds(heap, shapes)
        m == Call(m0, module.self, ids, kw)
    IN /\ heap' = m.heap
       /\ call' = [op |-> "forward", before |-> m0.heap, shapes |-> shapes, inputs |-> ids,
                   kw |-> kw, training |-> training, err |-> m.err, r |-> m.r,
                   nret |-> m.nret, log |-> m.log]
       /\ UNCHANGED <<annotations, classes, load, module, sdpa, pe>>

MaskShape(masked, s) == IF masked THEN s ELSE << >>
Flag(flag) == IF flag THEN << <<"return_attn_weights", TRUE>> >> ELSE << >>

ForwardMultiHeadAttention ==
    /\ Ready("MultiHeadAttention")
    /\ \E B \in BatchSizes, Sq \in 1..MaxSteps, Sk \in 1..MaxSteps,
          masked \in BOOLEAN, training \in BOOLEAN :
          LET d == Dim(module.cfg.d_model)
          IN Invoke(training, << <<B, Sq, d>>, <<B, Sk, d>>, <<B, Sk, d>>,
                                 MaskShape(masked, <<B, Sq, Sk>>) >>, NoKw)

\* self-attention: q, k and v are the same tensor
ForwardSelfAttention ==
    /\ Ready("MultiHeadAttention")
    /\ \E B \in BatchSizes, S \in 1..MaxSteps, masked \in BOOLEAN, training \in BOOLEAN :
          LET shapes == << <<B, S, Dim(module.cfg.d_model)>>, MaskShape(masked, <<B, S, S>>) >>
              m0 == AllocInputs(Machine(heap, training), shapes, 1)
              ids == InputIds(heap, shapes)
              m == Call(m0, module.self, <<ids[1], ids[1], ids[1], ids[2]>>, NoKw)
          IN /\ heap' = m.heap
             /\ call' = [op |-> "forward", before |-> m0.heap,
                         shapes |-> <<shapes[1], shapes[1], shapes[1], shapes[2]>>,
                         inputs |-> <<ids[1], ids[1], ids[1], ids[2]>>,
                         kw |-> NoKw, training |-> training, err |-> m.err, r |-> m.r,
                         nret |-> m.nret, log |-> m.log]
             /\ UNCHANGED <<annotations, classes, load, module, sdpa, pe>>

ForwardPositionWiseFeedForward ==
    /\ Ready("PositionWiseFeedForward")
    /\ \E B \in BatchSizes, S \in 1..MaxSteps, training \in BOOLEAN :
          Invoke(training, << <<B, S, Dim(module.cfg.d_model)>> >>, NoKw)

ForwardEncoderLayer ==
    /\ Ready("EncoderLayer")
    /\ \E B \in BatchSizes, S \in 1..MaxSteps, masked \in BOOLEAN, training \in BOOLEAN :
          Invoke(training, << <<B, S, Dim(module.cfg.d_model)>>,
                              MaskShape(masked, <<B, S, S>>) >>, NoKw)

ForwardDecoderLayer ==
    /\ Ready("DecoderLayer")
    /\ \E B \in BatchSizes, S \in 1..MaxSteps, Se \in 1..MaxSteps,
          slf \in BOOLEAN, enc \in BOOLEAN, training \in BOOLEAN :
          LET d == Dim(module.cfg.d_model)
          IN Invoke(training, << <<B, S, d>>, <<B, Se, d>>, MaskShape(slf, <<B, S, S>>),
                                 MaskShape(enc, <<B, S, Se>>) >>, NoKw)

\* the input may be longer than the n_steps the encoder was built for
ForwardEncoder ==
    /\ Ready("Encoder")
    /\ \E B \in BatchSizes, S \in 1..(MaxSteps + 1), masked \in BOOLEAN,
          training \in BOOLEAN, flag \in BOOLEAN :
          Invoke(training, << <<B, S, Dim(module.cfg.n_features)>>,
                              MaskShape(masked, <<B, S, S>>) >>, Flag(flag))

ForwardDecoder ==
    /\ Ready("Decoder")
    /\ \E B \in BatchSizes, S \in 1..MaxSteps, Se \in 1..MaxSteps, masked \in BOOLEAN,
          training \in BOOLEAN, flag \in BOOLEAN :
          Invoke(training, << <<B, S, Dim(module.cfg.n_features)>>,
                              <<B, Se, Dim(module.cfg.d_model)>>,
                              MaskShape(masked, <<B, S, S>>),
                              MaskShape(masked, <<B, S, Se>>) >>, Flag(flag))

Next ==
    \/ LoadModule
    \/ NewModule
    \/ ForwardMultiHeadAttention
    \/ ForwardSelfAttention
    \/ ForwardPositionWiseFeedForward
    \/ ForwardEncoderLayer
    \/ ForwardDecoderLayer
    \/ ForwardEncoder
    \/ ForwardDecoder

Spec == Init /\ [][Next]_vars

\* ------------------------------------------------------------- elements
\* Elements are addressed by 0-based index tuples.  A view addresses the
\* storage of its base through its strides; a tensor that owns its storage is
\* laid out row-major.
RECURSIVE Indices(_)
Indices(s) ==
    IF Len(s) = 0 THEN {<< >>}
    ELSE {<<i>> \o r : i \in 0..(s[1] - 1), r \in Indices(Tail(s))}

RECURSIVE Dot(_, _)
Dot(a, b) == IF Len(a) = 0 THEN 0 ELSE a[1] * b[1] + Dot(Tail(a), Tail(b))

\* the index tuple of storage offset o in a row-major tensor of shape s
RECURSIVE Unravel(_, _)
Unravel(o, s) ==
    IF Len(s) = 0 THEN << >>
    ELSE <<o \div Prod(Tail(s))>> \o Unravel(o % Prod(Tail(s)), Tail(s))

\* the index an operand of shape s is read at for element idx of a broadcast result
Bcast(idx, s) ==
    [i \in 1..Len(s) |-> IF s[i] = 1 THEN 0 ELSE idx[i + Len(idx) - Len(s)]]

\* the stored element that element idx of tensor t is: views (view, transpose,
\* unsqueeze, slice, detach) are followed into the storage of their base, and
\* copies (contiguous, clone) to the tensor copied
RECURSIVE Source(_, _, _)
Source(h, t, idx) ==
    IF h[t].base # t
    THEN Source(h, h[t].base, Unravel(Dot(idx, h[t].stride), h[h[t].base].shape))
    ELSE IF h[t].op \in {"contiguous", "clone"} THEN Source(h, h[t].args[1], idx)
    ELSE <<t, idx>>

\* the stored elements of inputs and projections that element idx of tensor t
\* is computed from, through the operations of attention
RECURSIVE Deps(_, _, _)
Deps(h, t, idx) ==
    IF h[t].base # t
    THEN Deps(h, h[t].base, Unravel(Dot(idx, h[t].stride), h[h[t].base].shape))
    ELSE CASE h[t].op \in {"contiguous", "clone", "div", "eq", "dropout"} ->
                 Deps(h, h[t].args[1], idx)
           [] h[t].op = "softmax" ->     \* over the last axis
                 UNION {Deps(h, h[t].args[1], Front(idx) \o <<s>>) :
                           s \in 0..(Last(h[t].shape) - 1)}
           [] h[t].op \in {"masked_fill", "add"} ->
                 Deps(h, h[t].args[1], Bcast(idx, h[h[t].args[1]].shape))
                    \cup Deps(h, h[t].args[2], Bcast(idx, h[h[t].args[2]].shape))
           [] h[t].op = "matmul" ->      \* sum over c of a[.., i, c] * b[.., c, j]
                 UNION {Deps(h, h[t].args[1],
                             Bcast(SubSeq(idx, 1, Len(idx) - 2),
                                   SubSeq(h[h[t].args[1]].shape, 1,
                                          Len(h[h[t].args[1]].shape) - 2))
                                \o <<idx[Len(idx) - 1], c>>)
                        \cup Deps(h, h[t].args[2],
                                  Bcast(SubSeq(idx, 1, Len(idx) - 2),
                                        SubSeq(h[h[t].args[2]].shape, 1,
                                               Len(h[h[t].args[2]].shape) - 2))
                                     \o <<c, Last(idx)>>) :
                           c \in 0..(Last(h[h[t].args[1]].shape) - 1)}
           [] OTHER -> {<<t, idx>>}

\* ------------------------------------------------------------- properties
\* the last call was a forward call of a module of class c
Called(c) == call.op = "forward" /\ module.cls = c
Valid == IsValidConfig(module.cls, module.cfg)
Flagged == call.kw # NoKw
Shape(t) == heap[t].shape
\* the forward calls of modules of class c during the last call, in order
CallsOf(c) == SelectSeq(call.log, LAMBDA e : e.cls = c)
\* nn.Dropout with probability p leaves its input alone
DropoutIsIdentity(p) == p = 0 \/ ~call.training

\* t is dropout(embedding(x) + positional table), by the operations that made it
IsEmbedded(t, x) ==
    LET s == IF DropoutIsIdentity(module.cfg.dropout) THEN t ELSE heap[t].args[1]
        emb == heap[s].args[1]
        row == heap[s].args[2]
    IN /\ DropoutIsIdentity(module.cfg.dropout) \/ heap[t].op = "dropout"
       /\ heap[s].op = "add"
       /\ heap[emb].op = "linear"
       /\ heap[emb].args = <<x, module.self.embedding.weight>>
       /\ heap[row].op = "detach"
       /\ heap[heap[row].args[1]].op = "clone"
       /\ heap[heap[heap[row].args[1]].args[1]].op = "slice"
       /\ heap[heap[heap[row].args[1]].args[1]].args[1]
             = module.self.position_enc.pos_table

\* what C1 says of a forward call of a built Encoder
EncoderContract ==
    LET B == call.shapes[1][1]
        S == call.shapes[1][2]
        cfg == module.cfg
        layers == CallsOf("EncoderLayer")
    IN (Called("Encoder") /\ Valid /\ S <= cfg.n_steps /\ Flagged) =>
          /\ call.err = NoErr
          /\ call.nret = 2
          /\ Shape(call.r[1]) = <<B, S, cfg.d_model>>
          /\ Len(call.r[2]) = cfg.n_layers
          /\ Len(layers) = cfg.n_layers
          /\ \A i \in 1..cfg.n_layers :
                /\ layers[i].oid = module.self.enc_layer_stack[i].oid
                /\ call.r[2][i] = layers[i].r[2]
                /\ Shape(call.r[2][i]) = <<B, cfg.n_heads, S, S>>
                /\ layers[i].args.src_mask = call.inputs[2]
                /\ IF i = 1 THEN IsEmbedded(layers[i].args.enc_input, call.inputs[1])
                   ELSE layers[i].args.enc_input = layers[i - 1].r[1]
          /\ call.r[1] = layers[cfg.n_layers].r[1]

\* C1: once the module is imported an Encoder can be built, and for an Encoder
\* built with n_layers = L >= 1 and an input [B, S, n_features] with
\* S <= n_steps, forward(x, src_mask, return_attn_weights=True) completes and
\* returns (hidden [B, S, d_model], collector of L entries), entry i the
\* [B, n_heads, S, S] weights of layer i of enc_layer_stack, layer 0 fed
\* dropout(embedding(x) + positional table), layer i > 0 fed layer i-1's output,
\* every layer given the same src_mask.
C1_EncoderForward ==
    /\ load # "unloaded" => load = "ok" /\ "Encoder" \in classes
    /\ EncoderContract

\* what C2 says of a forward call of a built Decoder
DecoderContract ==
    LET cfg == module.cfg
        layers == CallsOf("DecoderLayer")
        L == cfg.n_layers
    IN (Called("Decoder") /\ Valid /\ call.shapes[1][2] <= cfg.n_steps) =>
          /\ call.err = NoErr
          /\ Len(layers) = L
          /\ \A i \in 1..L :
                /\ layers[i].oid = module.self.dec_layer_stack[i].oid
                /\ layers[i].args.enc_output = call.inputs[2]
                /\ i > 1 => layers[i].args.dec_input = layers[i - 1].r[1]
          /\ IF Flagged
             THEN /\ call.nret = 3
                  /\ call.r[1] = layers[L].r[1]
                  /\ Len(call.r[2]) = L /\ Len(call.r[3]) = L
                  /\ \A i \in 1..L : /\ call.r[2][i] = layers[i].r[2]
                                     /\ call.r[3][i] = layers[i].r[3]
             ELSE /\ call.nret = 1
                  /\ call.r = layers[L].r[1]

\* C2: for a Decoder built with n_layers = L >= 1, forward completes, applies
\* each DecoderLayer of dec_layer_stack once in construction order (each fed the
\* previous layer's output), gives every layer the same enc_output, and returns
\* the last layer's output, with two collectors of length L (self- and
\* cross-attention weights in layer order) when return_attn_weights=True and
\* alone when it is False.
C2_DecoderForward == DecoderContract

\* C3: DecoderLayer.forward completes for shape-compatible inputs, masks given
\* or omitted, and performs in order self-attention (q = k = v = dec_input,
\* masked by slf_attn_mask), cross-attention (q = the self-attention output,
\* k = v = enc_output, masked by dec_enc_attn_mask) and the feed-forward block on
\* the cross-attention output; it returns (output, self-attention weights,
\* cross-attention weights).
C3_DecoderLayerForward ==
    LET attn == CallsOf("MultiHeadAttention")
        ffn == CallsOf("PositionWiseFeedForward")
        in == call.inputs
    IN (Called("DecoderLayer") /\ Valid) =>
          /\ call.err = NoErr
          /\ call.nret = 3
          /\ Len(attn) = 2 /\ Len(ffn) = 1
          /\ attn[1].oid = module.self.slf_attn.oid
          /\ attn[1].args = [q |-> in[1], k |-> in[1], v |-> in[1], attn_mask |-> in[3]]
          /\ attn[2].oid = module.self.enc_attn.oid
          /\ attn[2].args = [q |-> attn[1].r[1], k |-> in[2], v |-> in[2],
                             attn_mask |-> in[4]]
          /\ ffn[1].oid = module.self.pos_ffn.oid
          /\ ffn[1].args = [x |-> attn[2].r[1]]
          /\ call.r = <<ffn[1].r, attn[1].r[2], attn[2].r[2]>>

\* C4: for q [B, Sq, d_model], k and v [B, Sk, d_model] (Sq and Sk equal or
\* not), an optional mask [B, Sq, Sk] and positive n_heads, d_k, d_v,
\* MultiHeadAttention.forward completes and returns an output of shape
\* [B, Sq, d_model] and attention weights of shape [B, n_heads, Sq, Sk].
C4_MultiHeadAttentionShapes ==
    LET B == call.shapes[1][1]
        Sq == call.shapes[1][2]
        Sk == call.shapes[2][2]
        cfg == module.cfg
    IN (Called("MultiHeadAttention") /\ Valid) =>
          /\ call.err = NoErr
          /\ call.nret = 2
          /\ Shape(call.r[1]) = <<B, Sq, cfg.d_model>>
          /\ Shape(call.r[2]) = <<B, cfg.n_heads, Sq, Sk>>

\* the same call on the same tensors, parameters and mode, with
\* return_attn_weights=True
WithWeights ==
    Call(Machine(call.before, call.training),
         module.self, call.inputs, Flag(TRUE))

\* C6: Encoder.forward with return_attn_weights=False (the default) returns
\* only the final hidden state, and (dropout 0) that tensor is the one the same
\* call returns first with return_attn_weights=True: the same operations produce
\* the same tensors, and a call that raises raises either way.
C6_FlagOnlySelectsResult ==
    (Called("Encoder") /\ ~Flagged /\ module.cfg.dropout = 0
        /\ module.cfg.attn_dropout = 0) =>
       /\ WithWeights.err = call.err
       /\ WithWeights.heap = heap
       /\ call.err = NoErr =>
             /\ call.nret = 1
             /\ WithWeights.nret = 2
             /\ WithWeights.r[1] = call.r
             /\ Len(WithWeights.r[2]) = Len(CallsOf("EncoderLayer"))

\* C6 happens: a two-layer encoder called without the flag returned one tensor
C6_Witness ==
    /\ Called("Encoder") /\ ~Flagged /\ call.err = NoErr
    /\ module.cfg.dropout = 0 /\ module.cfg.attn_dropout = 0
    /\ module.cfg.n_layers = 2 /\ Len(CallsOf("EncoderLayer")) = 2
    /\ call.nret = 1 /\ Shape(call.r) = <<2, 2, module.cfg.d_model>>

\* C7: a module built with a zero or negative dimension fails at construction,
\* so none reaches a forward call.
C7_InvalidDimensionsRejected ==
    (module # NoModule /\ ~Valid) => (call.op = "init" /\ call.err # NoErr)

\* C9: no forward call changes a caller-supplied tensor or a parameter: every
\* tensor that existed before the call is as it was (shape, strides, storage and
\* the count of in-place writes to its storage), also when the call raised.
C9_InputsAndParametersUnchanged ==
    call.op = "forward" =>
       /\ Len(heap) >= Len(call.before)
       /\ \A t \in 1..Len(call.before) : heap[t] = call.before[t]

\* C9 happens: with dropout the identity, the residual additions of attention
\* and feed-forward wrote in place into tensors made during the call
C9_Witness ==
    /\ Called("EncoderLayer") /\ call.err = NoErr
    /\ DropoutIsIdentity(module.cfg.dropout)
    /\ Cardinality({t \in (Len(call.before) + 1)..Len(heap) : heap[t].ver > 0}) = 2

\* the result of the projection with weight w applied to x
Projected(x, w) ==
    CHOOSE t \in 1..Len(heap) : heap[t].op = "linear" /\ heap[t].args = <<x, w>>

\* the statements of MultiHeadAttention.forward that split v into heads and
\* merge the heads back
SplitMerge ==
    <<MHAForwardBody[9], MHAForwardBody[12], MHAForwardBody[15], MHAForwardBody[16],
      MHAForwardBody[17]>>

\* C10: in MultiHeadAttention.forward head h at step t reads features
\* h*d_k .. (h+1)*d_k-1 of the projected q and k and h*d_v .. (h+1)*d_v-1 of the
\* projected v at step t, the attention output of head h is computed from head
\* h's slices only, feature h*d_v + j of step t of the merged tensor is
\* component j of head h's attention output at step t, and splitting into heads
\* and merging back without attention gives every element its own place back.
C10_HeadsIndexConsistent ==
    (Called("MultiHeadAttention") /\ call.err = NoErr) =>
       LET B == call.shapes[1][1]
           S == call.shapes[1][2]
           H == module.cfg.n_heads
           dk == module.cfg.d_k
           dv == module.cfg.d_v
           in == call.inputs
           sd == CallsOf("ScaledDotProductAttention")[1]
           pq == Projected(in[1], module.self.w_qs.weight)
           pk == Projected(in[2], module.self.w_ks.weight)
           pv == Projected(in[3], module.self.w_vs.weight)
           out == sd.r[1]
           fc == CHOOSE t \in 1..Len(heap) :
                    heap[t].op = "linear" /\ heap[t].args[2] = module.self.fc.weight
           merged == heap[fc].args[1]
           back == Exec([Machine(heap, call.training) EXCEPT
                            !.reg = [self |-> module.self, v |-> pv, batch_size |-> B,
                                     n_steps |-> S]],
                        SplitMerge, 1)
       IN /\ Shape(sd.args.q) = <<B, H, S, dk>>
          /\ Shape(sd.args.k) = <<B, H, S, dk>>
          /\ Shape(sd.args.v) = <<B, H, S, dv>>
          /\ \A b \in 0..(B - 1), h \in 0..(H - 1), t \in 0..(S - 1) :
                /\ \A j \in 0..(dk - 1) :
                      /\ Source(heap, sd.args.q, <<b, h, t, j>>) = <<pq, <<b, t, h * dk + j>>>>
                      /\ Source(heap, sd.args.k, <<b, h, t, j>>) = <<pk, <<b, t, h * dk + j>>>>
                /\ \A j \in 0..(dv - 1) :
                      /\ Source(heap, sd.args.v, <<b, h, t, j>>) = <<pv, <<b, t, h * dv + j>>>>
                      /\ Deps(heap, out, <<b, h, t, j>>) =
                            {<<pq, <<b, t, h * dk + c>>>> : c \in 0..(dk - 1)}
                               \cup {<<pk, <<b, s, h * dk + c>>>> :
                                        s \in 0..(S - 1), c \in 0..(dk - 1)}
                               \cup {<<pv, <<b, s, h * dv + j>>>> : s \in 0..(S - 1)}
                               \cup {<<in[4], <<b, t, s>>>> :
                                        s \in IF in[4] = None THEN {} ELSE 0..(S - 1)}
                      /\ Source(heap, merged, <<b, t, h * dv + j>>) = <<out, <<b, h, t, j>>>>
          /\ Shape(merged) = <<B, S, H * dv>>
          /\ back.err = NoErr
          /\ \A idx \in Indices(Shape(pv)) : Source(back.heap, back.reg.v, idx) = <<pv, idx>>

\* C10 happens: two heads of width two over two steps were split, attended and
\* merged, which needed a copy (the transposed tensor was not contiguous)
C10_Witness ==
    /\ Called("MultiHeadAttention") /\ call.err = NoErr
    /\ module.cfg.n_heads = 2 /\ module.cfg.d_v = 2 /\ call.shapes[1][2] = 2
    /\ \E t \in 1..Len(heap) : heap[t].op = "contiguous"
    /\ Shape(call.r[1]) = <<call.shapes[1][1], 2, module.cfg.d_model>>

\* ------------------------------------------------- attention on numbers
\* ScaledDotProductAttention.forward for one batch entry and one head, with
\* d_tensor = 1: q, k and v are rows of integers and the weights are held in
\* ten-thousandths.
MaxKeys == 2
QueryCounts == {1, 2}
Temperatures == {1, 2}
QValues == {0, 2}
KValues == {-1, 1}
VValues == {3}
Scale == 10 ^ 4
Eps == Scale \div (10 ^ 3)
\* the score written over masked positions
MaskedScore == -1000000000

\* exp(-d) in ten-thousandths for an integer d >= 0; in float32 it is 0 beyond
\* d = 104
ExpNeg(d) ==
    CASE d = 0 -> 10000 [] d = 1 -> 3679 [] d = 2 -> 1353 [] d = 3 -> 498
      [] d = 4 -> 183 [] d = 5 -> 67 [] d = 6 -> 25 [] d = 7 -> 9
      [] d = 8 -> 3 [] d = 9 -> 1 [] OTHER -> 0

RECURSIVE SumSeq(_)
SumSeq(xs) == IF Len(xs) = 0 THEN 0 ELSE xs[1] + SumSeq(Tail(xs))

\* the scores with every position the mask marks left as it is
UnmaskedScores(scores, mask) == scores

\* torch.matmul(q / self.temperature, k.transpose(2, 3))
Scores(q, k, temperature) ==
    [i \in DOMAIN q |-> [j \in DOMAIN k |-> (q[i] \div temperature) * k[j]]]

\* attn.masked_fill(attn_mask == 1, -1e9)
MaskedScores(scores, mask) ==
    [i \in DOMAIN scores |->
        [j \in DOMAIN scores[i] |->
            IF mask[i][j] = 1 THEN MaskedScore ELSE scores[i][j]]]

\* F.softmax(attn, dim=-1): exp(x - max) / sum over the row
Softmax(scores) ==
    [i \in DOMAIN scores |->
        LET mx == CHOOSE x \in {scores[i][j] : j \in DOMAIN scores[i]} :
                     \A j \in DOMAIN scores[i] : x >= scores[i][j]
            e == [j \in DOMAIN scores[i] |-> ExpNeg(mx - scores[i][j])]
        IN [j \in DOMAIN scores[i] |-> (e[j] * Scale) \div SumSeq(e)]]

\* self.dropout(weights): the identity when p = 0 or in eval mode, else the
\* dropped positions are zero and the others scaled by 1 / (1 - p)
DropoutWeights(w, p, training, dropped) ==
    IF p = 0 \/ ~training THEN w
    ELSE [i \in DOMAIN w |->
            [j \in DOMAIN w[i] |->
                IF <<i, j>> \in dropped THEN 0 ELSE (w[i][j] * 100) \div (100 - p)]]

\* torch.matmul(attn, v)
WeightedValues(w, v) ==
    [i \in DOMAIN w |-> SumSeq([j \in DOMAIN v |-> w[i][j] * v[j]])]

\* attn_mask: None, or a 0/1 tensor [steps_q, steps_k]
MaskChoices(Sq, Sk) ==
    {[given |-> FALSE, at |-> [i \in 1..Sq |-> [j \in 1..Sk |-> 0]]]}
       \cup {[given |-> TRUE, at |-> f] : f \in [1..Sq -> [1..Sk -> {0, 1}]]}

\* the positions an active dropout drops in one call: none, or one of them
DropChoices(Sq, Sk, p, training) ==
    IF p = 0 \/ ~training THEN {{}}
    ELSE {{}} \cup {{<<i, j>>} : i \in 1..Sq, j \in 1..Sk}

\* ScaledDotProductAttention(temperature, attn_dropout)
SDPANew ==
    /\ load = "ok"
    /\ "ScaledDotProductAttention" \in classes
    /\ sdpa.pc = "idle"
    /\ \E temperature \in Temperatures, p \in Probabilities :
          sdpa' = [pc |-> "built", temperature |-> temperature, p |-> p]
    /\ UNCHANGED <<annotations, classes, load, heap, module, call, pe>>

\* the whole of forward(q, k, v, attn_mask)
SDPAForward ==
    /\ sdpa.pc = "built"
    /\ \E Sq \in QueryCounts, Sk \in 1..MaxKeys, training \in BOOLEAN :
       \E q \in [1..Sq -> QValues], k \in [1..Sk -> KValues], v \in [1..Sk -> VValues],
          mask \in MaskChoices(Sq, Sk), dropped \in DropChoices(Sq, Sk, sdpa.p, training) :
          LET scores == Scores(q, k, sdpa.temperature)
              filled == IF mask.given THEN MaskedScores(scores, mask.at) ELSE scores
              attn == DropoutWeights(Softmax(filled), sdpa.p, training, dropped)
          IN sdpa' = [pc |-> "done", temperature |-> sdpa.temperature, p |-> sdpa.p,
                      training |-> training, q |-> q, k |-> k, v |-> v, mask |-> mask,
                      attn |-> attn, output |-> WeightedValues(attn, v)]
    /\ UNCHANGED <<annotations, classes, load, heap, module, call, pe>>

NextSDPA == LoadModule \/ SDPANew \/ SDPAForward

SpecSDPA == Init /\ [][NextSDPA]_vars

\* the returned weight of every masked key of the rows in rows is below epsilon
MaskedWeightsVanish(rows) ==
    \A i \in rows : \A j \in DOMAIN sdpa.attn[i] :
        sdpa.mask.at[i][j] = 1 => sdpa.attn[i][j] < Eps

\* the query rows with at least one key the mask leaves alone
OpenRows == {i \in DOMAIN sdpa.attn : \E j \in DOMAIN sdpa.attn[i] : sdpa.mask.at[i][j] = 0}

\* C5: with attention dropout 0, for every 0/1 mask and every query row, every
\* key position whose mask entry is 1 has a returned attention weight below
\* epsilon.
C5_MaskedWeightsVanish ==
    (sdpa.pc = "done" /\ sdpa.p = 0 /\ sdpa.mask.given) =>
        MaskedWeightsVanish(DOMAIN sdpa.attn)

\* C5, amended: with attention dropout 0, for every 0/1 mask and every query
\* row in which at least one key is not masked, every key position whose mask
\* entry is 1 has a returned attention weight below epsilon (a row with every
\* key masked gets the uniform weights 1 / steps_k).
C5_MaskedWeightsVanishInOpenRows ==
    (sdpa.pc = "done" /\ sdpa.p = 0 /\ sdpa.mask.given) =>
        /\ MaskedWeightsVanish(OpenRows)
        /\ \A i \in DOMAIN sdpa.attn \ OpenRows : \A j \in DOMAIN sdpa.attn[i] :
              sdpa.attn[i][j] = Scale \div Len(sdpa.attn[i])

\* C5 happens: a row with its first key masked and its second not gave the
\* first weight 0 and the second all the weight
C5_Witness ==
    /\ sdpa.pc = "done" /\ sdpa.p = 0 /\ sdpa.mask.given
    /\ Len(sdpa.k) = 2
    /\ sdpa.mask.at[1] = <<1, 0>>
    /\ sdpa.attn[1] = <<0, Scale>>

\* --------------------------------------------- positional encoding calls
MaxCalls == 2

\* PositionalEncoding(d_hid, n_position)
PENew ==
    /\ load = "ok"
    /\ "PositionalEncoding" \in classes
    /\ pe.pc = "idle"
    /\ \E d_hid \in Widths, n_position \in (1..MaxSteps) \cup InvalidDims :
          LET m == Construct(Machine(<< >>, TRUE), "PositionalEncoding",
                             [d_hid |-> d_hid, n_position |-> n_position])
          IN pe' = [pc |-> IF m.err = NoErr THEN "built" ELSE "failed",
                    d_hid |-> d_hid, n_position |-> n_position, self |-> m.r,
                    heap |-> m.heap, table |-> m.heap, calls |-> 0,
                    x |-> None, err |-> m.err, r |-> None]
    /\ UNCHANGED <<annotations, classes, load, heap, module, call, sdpa>>

\* one more forward(x) on the same module; the tensors of earlier calls stay
PEForward ==
    /\ pe.pc = "built"
    /\ pe.calls < MaxCalls
    /\ \E B \in BatchSizes, S \in 1..(MaxSteps + 1) :
          LET m0 == Alloc(Machine(pe.heap, TRUE), <<B, S, pe.d_hid>>, "input", << >>)
              m == Call(m0, pe.self, <<m0.r>>, NoKw)
          IN pe' = [pe EXCEPT !.heap = m.heap, !.calls = @ + 1, !.x = m0.r,
                              !.err = m.err, !.r = m.r]
    /\ UNCHANGED <<annotations, classes, load, heap, module, call, sdpa>>

NextPE == LoadModule \/ PENew \/ PEForward

SpecPE == Init /\ [][NextPE]_vars

\* pos_table is the [1, n_position, d_hid] table built at construction
TableUnchanged ==
    /\ pe.self.pos_table = 1
    /\ pe.heap[1] = pe.table[1]
    /\ pe.heap[1].shape = <<1, pe.n_position, pe.d_hid>>

\* the last call returned x plus the table sliced to the input length: step t
\* of the result is x[:, t, :] plus table row t
ResultIsInputPlusRows ==
    LET h == pe.heap
        S == h[pe.x].shape[2]
    IN /\ pe.err = NoErr
       /\ h[pe.r].shape = h[pe.x].shape
       /\ h[pe.r].op = "add"
       /\ h[h[pe.r].args[2]].shape = <<1, S, pe.d_hid>>
       /\ \A idx \in Indices(h[pe.r].shape) :
             /\ Source(h, h[pe.r].args[1], Bcast(idx, h[h[pe.r].args[1]].shape))
                   = <<pe.x, idx>>
             /\ Source(h, h[pe.r].args[2], Bcast(idx, h[h[pe.r].args[2]].shape))
                   = <<pe.self.pos_table, <<0, idx[2], idx[3]>>>>

\* C8: after any sequence of forward calls pos_table is the table built at
\* construction, and every call on x [B, S, d_hid] returns x plus the table
\* sliced to exactly S rows: step t is x[:, t, :] plus table row t, never the
\* row of another position.
C8_TableConstantAndSliced ==
    pe.pc = "built" =>
       /\ TableUnchanged
       /\ pe.calls > 0 => ResultIsInputPlusRows

\* what holds of the positional encoding: the table is never written, and a
\* call on an input no longer than the table returns x plus the rows of its
\* steps
PositionalEncodingWithinTable ==
    pe.pc = "built" =>
       /\ TableUnchanged
       /\ (pe.calls > 0 /\ pe.heap[pe.x].shape[2] <= pe.n_position)
             => ResultIsInputPlusRows

====
